---- MODULE Spec2Model ----
(***************************************************************************)
(* A model of unmanic's settings store, unmanic.config.Config, and of the  *)
(* request schemas and the plugins handler of its web API (further down).  *)
(*                                                                         *)
(* The instance's attribute dictionary (self.__dict__) is the snapshot;    *)
(* settings.json files live in a small file system keyed by the directory  *)
(* that holds them.  Python values are records of a type name and a text,  *)
(* the text a sequence of strings (the components of a path, or the one    *)
(* literal of a scalar), so that os.path.join is concatenation and an int  *)
(* is told from the string that spells it.                                 *)
(***************************************************************************)
EXTENDS Integers, Sequences, FiniteSets, TLC

VARIABLES
    phase,      \* "new" before Config.__init__ has run, "ready" after
    environ,    \* os.environ: a function from variable names to str values
    ctor,       \* the arguments given to Config(...)
    fs,         \* directory -> the settings.json it holds
    attrs,      \* self.__dict__: [keys: insertion order, val: key -> value]
    lastOp,     \* the last call on the store: its inputs, outcome and effects
    pc,         \* per thread: the position in set_config_item (concurrent runs)
    local,      \* per thread: its program and its local variables
    seen,       \* per thread: the values a reader's get calls returned
    api         \* the web API: its collaborators' data and the last request

vars == <<phase, environ, ctor, fs, attrs, lastOp, pc, local, seen, api>>

----------------------------------------------------------------------------
(* Python values *)

PyInt(r) == [type |-> "int", repr |-> r]
PyStr(r) == [type |-> "str", repr |-> r]
PyBool(b) == [type |-> "bool", repr |-> IF b THEN <<"True">> ELSE <<"False">>]
PyNone == [type |-> "NoneType", repr |-> <<"None">>]

\* bool(v), as `if config_path:` and `if kwargs.get('port'):` use it
Truthy(v) ==
    CASE v.type = "NoneType" -> FALSE
      [] v.type = "bool" -> v.repr = <<"True">>
      [] v.type = "int" -> v.repr # <<"0">>
      [] v.type = "str" -> v.repr # <<>>
      [] OTHER -> TRUE

\* os.path.join on component sequences
PathJoin(a, b) == a \o b

Range(s) == {s[i] : i \in 1..Len(s)}

EmptyMap == [k \in {} |-> PyNone]

----------------------------------------------------------------------------
(* The declared fields and their defaults, Config.__init__ lines 53-75 *)

HomeDir == <<"~">>

DeclaredOrder ==
    << "ui_port", "config_path", "log_path", "plugins_path", "userdata_path",
       "debugging", "library_path", "enable_library_scanner",
       "schedule_full_scan_minutes", "follow_symlinks",
       "run_full_scan_on_start", "enable_inotify", "number_of_workers",
       "cache_path" >>

Declared == Range(DeclaredOrder)

Defaults ==
    [ ui_port |-> PyInt(<<"8888">>),
      config_path |-> PyStr(PathJoin(HomeDir, <<".unmanic", "config">>)),
      log_path |-> PyStr(PathJoin(HomeDir, <<".unmanic", "logs">>)),
      plugins_path |-> PyStr(PathJoin(HomeDir, <<".unmanic", "plugins">>)),
      userdata_path |-> PyStr(PathJoin(HomeDir, <<".unmanic", "userdata">>)),
      debugging |-> PyBool(FALSE),
      library_path |-> PyStr(PathJoin(<<"/">>, <<"library">>)),
      enable_library_scanner |-> PyBool(FALSE),
      schedule_full_scan_minutes |-> PyInt(<<"1440">>),
      follow_symlinks |-> PyBool(TRUE),
      run_full_scan_on_start |-> PyBool(FALSE),
      enable_inotify |-> PyBool(FALSE),
      number_of_workers |-> PyInt(<<"1">>),
      cache_path |-> PyStr(PathJoin(<<"/">>, <<"tmp", "unmanic">>)) ]

DefaultDict == [keys |-> DeclaredOrder, val |-> Defaults]

\* The X for which the class defines a method get_X (hasattr(self, "get_X"))
FieldGetters ==
    { "ui_port", "cache_path", "config_path", "debugging", "enable_inotify",
      "library_path", "log_path", "number_of_workers",
      "enable_library_scanner", "run_full_scan_on_start",
      "schedule_full_scan_minutes", "follow_symlinks", "plugins_path" }

OtherGetters == { "config_as_dict", "config_keys", "config_item" }

\* str.lower on the keys the model uses
Lower(key) ==
    CASE key = "UI_PORT" -> "ui_port"
      [] key = "Debugging" -> "debugging"
      [] OTHER -> key

----------------------------------------------------------------------------
(* JSON: json.dump of the dictionary, json.load of the file *)

JsonDumpValue(v) ==
    CASE v.type = "int" -> [jtype |-> "number", text |-> v.repr]
      [] v.type = "str" -> [jtype |-> "string", text |-> v.repr]
      [] v.type = "bool" ->
            [jtype |-> "literal",
             text |-> IF v.repr = <<"True">> THEN <<"true">> ELSE <<"false">>]
      [] OTHER -> [jtype |-> "literal", text |-> <<"null">>]

\* A reader that takes every JSON value for a string
JsonLoadValue_text(j) == PyStr(j.text)

JsonLoadValue(j) ==
    CASE j.jtype = "number" -> PyInt(j.text)
      [] j.jtype = "string" -> PyStr(j.text)
      [] j.text = <<"true">> -> PyBool(TRUE)
      [] j.text = <<"false">> -> PyBool(FALSE)
      [] OTHER -> PyNone

JsonDump(data) == [k \in DOMAIN data |-> JsonDumpValue(data[k])]

JsonLoad(obj) == [k \in DOMAIN obj |-> JsonLoadValue(obj[k])]

NoFile == [kind |-> "missing", data |-> EmptyMap]
CorruptFile == [kind |-> "corrupt", data |-> EmptyMap]
JsonFile(obj) == [kind |-> "json", data |-> obj]
\* A file whose text is valid JSON but no object: a number or null
ScalarFile == [kind |-> "scalar", data |-> EmptyMap]

----------------------------------------------------------------------------
(* The attribute dictionary *)

get_config_as_dict(d) == d.val

get_config_keys(d) == d.keys

get_config_path(d) == d.val["config_path"]

\* setattr(self, key, value): a new key is appended to the dictionary
SetAttr(d, key, value) ==
    [ keys |-> IF key \in Range(d.keys) THEN d.keys ELSE Append(d.keys, key),
      val |-> [k \in Range(d.keys) \cup {key} |->
                 IF k = key THEN value ELSE d.val[k]] ]

\* What a handler has done so far: the dictionary, the files, the exception
\* it raised ("none" while it runs normally) and its effects in order.
Ctx(d, fsys) == [d |-> d, fs |-> fsys, raised |-> "none", events |-> <<>>]

Event(e, key, d) == [e |-> e, key |-> key, snap |-> d.val]

CountEvents(events, e) == Cardinality({i \in 1..Len(events) : events[i].e = e})

----------------------------------------------------------------------------
(* Writing the settings file *)

\* common.json_dump_to_file(data, settings_file): on success the file holds
\* the JSON of data; on failure the file is left as it was.
json_dump_to_file(data, fsys, dir, ioOk) ==
    IF ioOk
    THEN [success |-> TRUE, fs |-> [fsys EXCEPT ![dir] = JsonFile(JsonDump(data))]]
    ELSE [success |-> FALSE, fs |-> fsys]

\* A variant that logs a failed write and returns normally.
write_settings_to_file_swallow(c, ioOk) ==
    LET result == json_dump_to_file(get_config_as_dict(c.d), c.fs,
                                    get_config_path(c.d).repr, ioOk)
    IN  IF result.success
        THEN [c EXCEPT !.fs = result.fs,
                       !.events = Append(@, Event("write", "", c.d))]
        ELSE [c EXCEPT !.events = Append(@, Event("write_failed", "", c.d))]

\* Config.__write_settings_to_file
write_settings_to_file(c, ioOk) ==
    LET result == json_dump_to_file(get_config_as_dict(c.d), c.fs,
                                    get_config_path(c.d).repr, ioOk)
    IN  IF result.success
        THEN [c EXCEPT !.fs = result.fs,
                       !.events = Append(@, Event("write", "", c.d))]
        ELSE [c EXCEPT !.raised = "Exception",
                       !.events = Append(@, Event("write_failed", "", c.d))]

----------------------------------------------------------------------------
(* get, set and bulk set *)

\* A variant that raises for a key that has no getter.
get_config_item_raise(d, key) ==
    IF key \in FieldGetters
    THEN [raised |-> "none", ret |-> d.val[key]]
    ELSE IF key = "config_as_dict" \/ key = "config_keys"
    THEN [raised |-> "none", ret |-> [type |-> "dict", repr |-> d.keys]]
    ELSE IF key = "config_item"
    THEN [raised |-> "TypeError", ret |-> PyNone]
    ELSE [raised |-> "NotFoundError", ret |-> PyNone]

\* Config.get_config_item: the getter get_<key> is called when the class has
\* one; otherwise the function falls off its end and returns None.
\* get_config_as_dict and get_config_keys return the dictionary (its keys),
\* get_config_item is called without its argument and raises TypeError.
get_config_item(d, key) ==
    IF key \in FieldGetters
    THEN [raised |-> "none", ret |-> d.val[key]]
    ELSE IF key = "config_as_dict" \/ key = "config_keys"
    THEN [raised |-> "none", ret |-> [type |-> "dict", repr |-> d.keys]]
    ELSE IF key = "config_item"
    THEN [raised |-> "TypeError", ret |-> PyNone]
    ELSE [raised |-> "none", ret |-> PyNone]

\* A get that gives a key it does not find the value None in the dictionary
GetCall_default(c, key) ==
    IF key \in FieldGetters \cup OtherGetters \/ key \in Range(c.d.keys)
    THEN [c EXCEPT !.raised = get_config_item(c.d, key).raised]
    ELSE LET d1 == SetAttr(c.d, key, PyNone)
         IN  [c EXCEPT !.d = d1,
                       !.events = Append(@, Event("assign", key, d1))]

\* What a call of get_config_item leaves: it and the getters only read
\* attributes, so the dictionary and the files are as they were and nothing
\* is logged, assigned or written
GetCall(c, key) == [c EXCEPT !.raised = get_config_item(c.d, key).raised]

\* A set that takes the value back when the write fails
set_config_item_rollback(c, key, value, save_settings, ioOk) ==
    LET field_id == Lower(key)
    IN  IF field_id \notin Range(get_config_keys(c.d))
        THEN [c EXCEPT !.events = Append(@, Event("log", key, c.d))]
        ELSE LET d1 == SetAttr(c.d, key, value)
                 c1 == [c EXCEPT !.d = d1,
                                 !.events = Append(@, Event("assign", key, d1))]
                 c2 == write_settings_to_file(c1, ioOk)
             IN  IF ~save_settings THEN c1
                 ELSE IF c2.raised = "none" THEN c2
                 ELSE [c2 EXCEPT !.d = c.d]

\* Config.set_config_item
set_config_item(c, key, value, save_settings, ioOk) ==
    LET field_id == Lower(key)
    IN  IF field_id \notin Range(get_config_keys(c.d))
        THEN [c EXCEPT !.events = Append(@, Event("log", key, c.d))]
        ELSE LET d1 == SetAttr(c.d, key, value)
                 c1 == [c EXCEPT !.d = d1,
                                 !.events = Append(@, Event("assign", key, d1))]
             IN  IF save_settings THEN write_settings_to_file(c1, ioOk) ELSE c1

\* The loop of set_bulk_config_items from position i of the key view; the
\* write numbered failAt (0: none) fails.
RECURSIVE BulkLoop(_, _, _, _, _)
BulkLoop(c, items, save_settings, failAt, i) ==
    IF c.raised # "none" \/ i > Len(get_config_keys(c.d))
    THEN c
    ELSE LET config_key == get_config_keys(c.d)[i]
             nth == CountEvents(c.events, "write") + 1
         IN  IF config_key \in DOMAIN items
             THEN BulkLoop(set_config_item(c, config_key, items[config_key],
                                           save_settings, nth # failAt),
                           items, save_settings, failAt, i + 1)
             ELSE BulkLoop(c, items, save_settings, failAt, i + 1)

\* A variant that applies every field and then writes the file once.
set_bulk_config_items_once(c, items, save_settings, failAt) ==
    LET c1 == BulkLoop(c, items, FALSE, 0, 1)
    IN  IF save_settings THEN write_settings_to_file(c1, failAt # 1) ELSE c1

\* Config.set_bulk_config_items
set_bulk_config_items(c, items, save_settings, failAt) ==
    BulkLoop(c, items, save_settings, failAt, 1)

----------------------------------------------------------------------------
(* Construction *)

\* The loop of __import_settings_from_env from position i of the key view.
RECURSIVE EnvLoop(_, _, _)
EnvLoop(c, env, i) ==
    IF i > Len(get_config_keys(c.d))
    THEN c
    ELSE LET setting == get_config_keys(c.d)[i]
         IN  IF setting \in DOMAIN env
             THEN EnvLoop(set_config_item(c, setting, env[setting], FALSE, TRUE),
                          env, i + 1)
             ELSE EnvLoop(c, env, i + 1)

\* Config.__import_settings_from_env
import_settings_from_env(c, env) == EnvLoop(c, env, 1)

\* The directory __import_settings_from_file reads settings.json from
SettingsDir(d, config_path) ==
    IF Truthy(config_path) THEN config_path.repr ELSE get_config_path(d).repr

\* __import_settings_from_file without its try/except around json.load
import_settings_from_file_strict(c, config_path) ==
    LET file == c.fs[SettingsDir(c.d, config_path)]
    IN  CASE file.kind = "missing" -> c
          [] file.kind = "corrupt" -> [c EXCEPT !.raised = "JSONDecodeError"]
          [] file.kind = "scalar" -> [c EXCEPT !.raised = "TypeError"]
          [] OTHER -> set_bulk_config_items(c, JsonLoad(file.data), FALSE, 0)

\* Config.__import_settings_from_file: a file that cannot be parsed is logged
\* and read as the empty mapping.  What json.load returns goes to
\* set_bulk_config_items outside the try: when it is a number or null,
\* "config_key in items" raises TypeError.
import_settings_from_file(c, config_path) ==
    LET file == c.fs[SettingsDir(c.d, config_path)]
    IN  CASE file.kind = "missing" -> c
          [] file.kind = "scalar" -> [c EXCEPT !.raised = "TypeError"]
          [] OTHER ->
               LET data == IF file.kind = "json" THEN JsonLoad(file.data)
                           ELSE EmptyMap
               IN  set_bulk_config_items(c, data, FALSE, 0)

\* The constructor's overrides, lines 84-93
ApplyOverrides(c, args) ==
    LET c1 == IF Truthy(args.config_path)
              THEN set_config_item(c, "config_path", args.config_path, FALSE, TRUE)
              ELSE c
        up == args.unmanic_path
        c2 == IF Truthy(up)
              THEN set_config_item(
                     set_config_item(
                       set_config_item(c1, "config_path",
                           PyStr(PathJoin(up.repr, <<"config">>)), FALSE, TRUE),
                       "plugins_path",
                       PyStr(PathJoin(up.repr, <<"plugins">>)), FALSE, TRUE),
                     "userdata_path",
                     PyStr(PathJoin(up.repr, <<"userdata">>)), FALSE, TRUE)
              ELSE c1
    IN  IF Truthy(args.port)
        THEN set_config_item(c2, "ui_port", args.port, FALSE, TRUE)
        ELSE c2

\* Config.__init__
ConfigInit(env, fsys, args) ==
    LET c == import_settings_from_file(
                 import_settings_from_env(Ctx(DefaultDict, fsys), env),
                 args.config_path)
    IN  IF c.raised = "none" THEN ApplyOverrides(c, args) ELSE c

----------------------------------------------------------------------------
(* Inputs *)

DefaultDir == Defaults["config_path"].repr
AltDir == <<"/", "alt", "config">>
UnmanicPath == <<"/", "opt", "unmanic">>
Dirs == {DefaultDir, AltDir, PathJoin(UnmanicPath, <<"config">>)}

Restrict(f, S) == [k \in S |-> f[k]]

\* Environment variables that may be set: their values are strings
EnvUniverse ==
    [ ui_port |-> PyStr(<<"9999">>),
      debugging |-> PyStr(<<"false">>),
      userdata_path |-> PyStr(<<"/", "data">>) ]

\* The content of a settings.json found at start
FileUniverse ==
    [ ui_port |-> [jtype |-> "number", text |-> <<"9999">>],
      debugging |-> [jtype |-> "literal", text |-> <<"true">>],
      userdata_path |-> [jtype |-> "string", text |-> <<"/", "data2">>],
      historical_key |-> [jtype |-> "string", text |-> <<"old">>] ]

StartFiles ==
    { NoFile, CorruptFile, ScalarFile,
      JsonFile(Restrict(FileUniverse, {"ui_port"})),
      JsonFile(FileUniverse) }

AltFiles ==
    { NoFile, JsonFile([ui_port |-> [jtype |-> "number", text |-> <<"7000">>]]) }

NoArgs == [config_path |-> PyNone, unmanic_path |-> PyNone, port |-> PyNone]

CtorChoices ==
    [ config_path : {PyNone, PyStr(AltDir)},
      unmanic_path : {PyNone, PyStr(UnmanicPath)},
      port : {PyNone, PyInt(<<"7777">>)} ]

\* The calls of set: a key and a value
SetInputs ==
    { <<"ui_port", PyInt(<<"9000">>)>>,
      <<"config_path", PyStr(AltDir)>>,
      <<"UI_PORT", PyInt(<<"9000">>)>>,
      <<"historical_key", PyStr(<<"old">>)>> }

BulkUniverse ==
    [ ui_port |-> PyInt(<<"9000">>),
      debugging |-> PyBool(TRUE),
      historical_key |-> PyStr(<<"old">>),
      UI_PORT |-> PyInt(<<"9000">>) ]

BulkInputs ==
    { Restrict(BulkUniverse, S) :
        S \in { {}, {"ui_port", "debugging"},
                {"ui_port", "debugging", "historical_key"},
                {"ui_port", "UI_PORT"} } }

GetKeys ==
    { "ui_port", "userdata_path", "historical_key", "UI_PORT", "config_keys",
      "config_item" }

\* The writes of one bulk call that may fail: the first or the second
MaxFailAt == 2

NumThreads == 2
Threads == 1..NumThreads

----------------------------------------------------------------------------
(* The store used by one flow at a time *)

NoOp ==
    [ op |-> "none", key |-> "", value |-> PyNone, save |-> FALSE,
      items |-> EmptyMap, failAt |-> 0, raised |-> "none", ret |-> PyNone,
      events |-> <<>>, after |-> "" ]

\* The call before this one returned normally and was a bulk set of the same
\* items with the same save_settings
SameBulkBefore(items, save) ==
    /\ lastOp.op = "bulk"
    /\ lastOp.raised = "none"
    /\ lastOp.items = items
    /\ lastOp.save = save

NoDict == [keys |-> <<>>, val |-> EmptyMap]

\* What a flow runs: set(key, value, save), bulk set(items, save), or get
\* of each of keys in turn
NoProgram ==
    [ kind |-> "none", key |-> "", value |-> PyNone, items |-> EmptyMap,
      keys |-> <<>>, save |-> FALSE ]

\* A flow's local variables: its program, its place i in the loop it runs,
\* the arguments of its running set_config_item call, the directory and the
\* serialized data of its running file write, and what it raised
NoLocal ==
    [ prog |-> NoProgram, i |-> 1, key |-> "", value |-> PyNone,
      dir |-> <<>>, data |-> EmptyMap, wrote |-> FALSE, raised |-> "none" ]

\* No request has reached the web API
NoApi ==
    [ installed |-> {}, order |-> <<>>,
      last |-> [endpoint |-> "none", body |-> EmptyMap, valid |-> FALSE,
                calls |-> <<>>, responses |-> <<>>] ]

Idle ==
    /\ pc = [t \in Threads |-> "idle"]
    /\ local = [t \in Threads |-> NoLocal]
    /\ seen = [t \in Threads |-> <<>>]
    /\ api = NoApi

NewProcess(envs, files, altFiles, ctors) ==
    /\ phase = "new"
    /\ environ \in envs
    /\ ctor \in ctors
    /\ \E f \in files, a \in altFiles :
          fs = [d \in Dirs |-> IF d = DefaultDir THEN f
                               ELSE IF d = AltDir THEN a ELSE NoFile]
    /\ attrs = NoDict
    /\ lastOp = NoOp
    /\ Idle

\* A process start with few inputs, for the runs that go on to set and get
Init ==
    NewProcess({EmptyMap}, {NoFile, JsonFile(FileUniverse)}, {NoFile}, {NoArgs})

\* Every process start
InitBuild ==
    NewProcess({Restrict(EnvUniverse, S) : S \in SUBSET DOMAIN EnvUniverse},
               StartFiles, AltFiles, CtorChoices)

Construct ==
    /\ phase = "new"
    /\ \E c \in {ConfigInit(environ, fs, ctor)} :
           /\ attrs' = c.d
           /\ fs' = c.fs
           /\ lastOp' = [NoOp EXCEPT !.op = "init", !.raised = c.raised,
                                     !.events = c.events]
           /\ phase' = IF c.raised = "none" THEN "ready" ELSE "failed"
    /\ UNCHANGED <<environ, ctor, pc, local, seen, api>>

Get ==
    /\ phase = "ready"
    /\ \E key \in GetKeys :
          \E r \in {get_config_item(attrs, key)},
             c \in {GetCall(Ctx(attrs, fs), key)} :
              /\ attrs' = c.d
              /\ fs' = c.fs
              /\ lastOp' = [NoOp EXCEPT !.op = "get", !.key = key,
                                        !.raised = r.raised, !.ret = r.ret,
                                        !.events = c.events]
    /\ UNCHANGED <<phase, environ, ctor, pc, local, seen, api>>

Set ==
    /\ phase = "ready"
    /\ \E in \in SetInputs, save \in BOOLEAN, ioOk \in BOOLEAN :
          /\ save \/ ioOk
          /\ \E c \in {set_config_item(Ctx(attrs, fs), in[1], in[2], save, ioOk)} :
              /\ attrs' = c.d
              /\ fs' = c.fs
              /\ lastOp' = [NoOp EXCEPT !.op = "set", !.key = in[1],
                                        !.value = in[2], !.save = save,
                                        !.failAt = IF ioOk THEN 0 ELSE 1,
                                        !.raised = c.raised,
                                        !.events = c.events]
    /\ UNCHANGED <<phase, environ, ctor, pc, local, seen, api>>

BulkSet ==
    /\ phase = "ready"
    /\ \E items \in BulkInputs, save \in BOOLEAN, failAt \in 0..MaxFailAt :
          /\ save \/ failAt = 0
          /\ \E c \in {set_bulk_config_items(Ctx(attrs, fs), items, save, failAt)} :
              /\ attrs' = c.d
              /\ fs' = c.fs
              /\ lastOp' = [NoOp EXCEPT !.op = "bulk", !.items = items,
                                        !.save = save, !.failAt = failAt,
                                        !.raised = c.raised,
                                        !.events = c.events,
                                        !.after = IF SameBulkBefore(items, save)
                                                  THEN "same_bulk" ELSE ""]
    /\ UNCHANGED <<phase, environ, ctor, pc, local, seen, api>>

\* The last call ended with a write of the settings file that succeeded
Persisted ==
    /\ lastOp.op \in {"set", "bulk"}
    /\ lastOp.raised = "none"
    /\ lastOp.events # <<>>
    /\ lastOp.events[Len(lastOp.events)].e = "write"

\* The process ends once its last call has written the settings file, and a
\* new one builds its store, in the same environment, on the directory whose
\* settings.json the old one used
Restart ==
    /\ phase = "ready"
    /\ Persisted
    /\ \E args \in {[NoArgs EXCEPT !.config_path = get_config_path(attrs)]} :
          \E c \in {ConfigInit(environ, fs, args)} :
              /\ ctor' = args
              /\ attrs' = c.d
              /\ fs' = c.fs
              /\ lastOp' = [NoOp EXCEPT !.op = "init", !.raised = c.raised,
                                        !.events = c.events,
                                        !.after = IF Persisted THEN "persist"
                                                  ELSE ""]
              /\ phase' = IF c.raised = "none" THEN "ready" ELSE "failed"
    /\ UNCHANGED <<environ, pc, local, seen, api>>

Next == Construct \/ Get \/ Set \/ BulkSet

Spec == Init /\ [][Next]_vars

\* The runs in which the process may end and start again
NextRestart == Construct \/ Get \/ Set \/ BulkSet \/ Restart

SpecRestart == Init /\ [][NextRestart]_vars

NextBuild == Construct \/ Get

SpecBuild == InitBuild /\ [][NextBuild]_vars

----------------------------------------------------------------------------
(* What the claims speak of *)

\* The store has just been built
Built == phase = "ready" /\ lastOp.op = "init"

\* The value get(f) returns in the current state
GetValue(f) == get_config_item(attrs, f).ret

\* The override the constructor's arguments give for field f, if any
HasOverride(f) ==
    \/ f = "config_path" /\ (Truthy(ctor.config_path) \/ Truthy(ctor.unmanic_path))
    \/ f \in {"plugins_path", "userdata_path"} /\ Truthy(ctor.unmanic_path)
    \/ f = "ui_port" /\ Truthy(ctor.port)

Override(f) ==
    CASE f = "ui_port" -> ctor.port
      [] f = "config_path" /\ ~Truthy(ctor.unmanic_path) -> ctor.config_path
      [] f = "config_path" -> PyStr(PathJoin(ctor.unmanic_path.repr, <<"config">>))
      [] f = "plugins_path" -> PyStr(PathJoin(ctor.unmanic_path.repr, <<"plugins">>))
      [] OTHER -> PyStr(PathJoin(ctor.unmanic_path.repr, <<"userdata">>))

\* The settings file the constructor loads
LoadedFile ==
    fs[IF Truthy(ctor.config_path) THEN ctor.config_path.repr
       ELSE IF "config_path" \in DOMAIN environ THEN environ["config_path"].repr
       ELSE DefaultDir]

FileHolds(f) == LoadedFile.kind = "json" /\ f \in DOMAIN LoadedFile.data

\* The value the precedence law gives field f
Expected(f) ==
    IF HasOverride(f) THEN Override(f)
    ELSE IF FileHolds(f) THEN JsonLoadValue(LoadedFile.data[f])
    ELSE IF f \in DOMAIN environ THEN environ[f]
    ELSE Defaults[f]

\* An environment string coerced to the type of field f's default
Coerce(f, s) ==
    CASE Defaults[f].type = "int" -> PyInt(s.repr)
      [] Defaults[f].type = "bool" -> PyBool(s.repr \in {<<"true">>, <<"True">>, <<"1">>})
      [] OTHER -> s

\* The settings file of the current config_path
CurrentFile == fs[get_config_path(attrs).repr]

----------------------------------------------------------------------------
(* The claims *)

\* C1: after construction, get(f) of every declared field f is the
\* constructor's override if one was given, else the value the settings file
\* holds for f, else the environment variable f, else the default.
C1_Precedence ==
    Built => \A f \in Declared : GetValue(f) = Expected(f)

\* C2: once built, the keys of the snapshot are exactly the declared field
\* names, whatever set and bulk set calls were made.
C2_ClosedRegistry ==
    phase = "ready" => Range(get_config_keys(attrs)) = Declared

\* C3: set with a key that is not a declared field assigns nothing, writes
\* no file and returns normally.
C3_UnknownSetNoEffect ==
    (lastOp.op = "set" /\ lastOp.key \notin Declared) =>
        /\ lastOp.raised = "none"
        /\ \A i \in 1..Len(lastOp.events) : lastOp.events[i].e = "log"

\* C4: a store built with no environment variable, no settings file and no
\* overrides returns the default of every declared field.
C4_Defaults ==
    ( /\ Built
      /\ environ = EmptyMap
      /\ \A d \in Dirs : fs[d].kind = "missing"
      /\ ctor = NoArgs ) =>
        \A f \in Declared : GetValue(f) = Defaults[f]

\* C5: a field set only by its environment variable is returned coerced to
\* the field's type.
C5_EnvCoerced ==
    Built =>
        \A f \in Declared \cap DOMAIN environ :
            (~FileHolds(f) /\ ~HasOverride(f)) =>
                GetValue(f) = Coerce(f, environ[f])

\* C6 as stated: get with a key that is not a declared field fails with
\* NotFoundError.
C6_UnknownGetFails ==
    (lastOp.op = "get" /\ lastOp.key \notin Declared) =>
        lastOp.raised = "NotFoundError"

\* C6 as amended: get with a key that is not a declared field, and for which
\* the class has no method get_<key>, returns None and raises nothing.
C6_UnknownGetReturnsNone ==
    (lastOp.op = "get" /\ lastOp.key \notin Declared
                       /\ lastOp.key \notin OtherGetters) =>
        lastOp.raised = "none" /\ lastOp.ret = PyNone

\* A get of a key that is no field and has no getter has returned None.
C6_Witness ==
    /\ lastOp.op = "get"
    /\ lastOp.key = "historical_key"
    /\ lastOp.ret = PyNone

\* C7: a persisting set of a declared key leaves, when the write succeeds,
\* the settings file equal to the whole snapshot, the new value included;
\* when the write fails the call raises.
C7_PersistingSet ==
    (lastOp.op = "set" /\ lastOp.key \in Declared /\ lastOp.save) =>
        IF lastOp.failAt = 0
        THEN /\ lastOp.raised = "none"
             /\ attrs.val[lastOp.key] = lastOp.value
             /\ CurrentFile = JsonFile(JsonDump(get_config_as_dict(attrs)))
             /\ Declared \subseteq DOMAIN CurrentFile.data
        ELSE lastOp.raised # "none"

\* A persisting set of ui_port has succeeded and the file holds the new value.
C7_Witness ==
    /\ lastOp.op = "set"
    /\ lastOp.key = "ui_port"
    /\ lastOp.save
    /\ lastOp.failAt = 0
    /\ CurrentFile.kind = "json"
    /\ CurrentFile.data["ui_port"] = JsonDumpValue(lastOp.value)

----------------------------------------------------------------------------
(* The store used by several flows at once.  The class takes no lock, so a
   flow may be preempted between any two statements; a step below is one
   statement, or several that touch nothing shared. *)

SetProgram(key, value, save) ==
    [NoProgram EXCEPT !.kind = "set", !.key = key, !.value = value, !.save = save]

BulkProgram(items, save) ==
    [NoProgram EXCEPT !.kind = "bulk", !.items = items, !.save = save]

ReadProgram(keys) == [NoProgram EXCEPT !.kind = "read", !.keys = keys]

ConcItems == Restrict(BulkUniverse, {"ui_port", "debugging"})

ConcPrograms ==
    { SetProgram("ui_port", PyInt(<<"9000">>), TRUE),
      SetProgram("debugging", PyBool(TRUE), TRUE),
      SetProgram("historical_key", PyStr(<<"old">>), TRUE),
      BulkProgram(ConcItems, TRUE),
      BulkProgram(ConcItems, FALSE),
      ReadProgram(<<"ui_port", "debugging">>),
      ReadProgram(<<"debugging", "ui_port">>) }

\* Where a flow starts its program
EntryPoint(prog) ==
    CASE prog.kind = "set" -> "set_item"
      [] prog.kind = "bulk" -> "bulk_loop"
      [] OTHER -> "read"

\* The store as built with no environment, no file and no overrides, and a
\* program for each flow
InitConc ==
    /\ phase = "ready"
    /\ environ = EmptyMap
    /\ ctor = NoArgs
    /\ fs = [d \in Dirs |-> NoFile]
    /\ attrs = ConfigInit(EmptyMap, [d \in Dirs |-> NoFile], NoArgs).d
    /\ lastOp = NoOp
    /\ local \in [Threads -> {[NoLocal EXCEPT !.prog = p, !.key = p.key,
                                              !.value = p.value] :
                                 p \in ConcPrograms}]
    /\ pc = [t \in Threads |-> EntryPoint(local[t].prog)]
    /\ seen = [t \in Threads |-> <<>>]
    /\ api = NoApi

\* Where a flow goes when its set_config_item call returns
AfterSet(prog) == IF prog.kind = "bulk" THEN "bulk_loop" ELSE "done"

\* The first position from i of the key view whose key is in items, or one
\* past the end
RECURSIVE NextMatch(_, _, _)
NextMatch(keys, items, i) ==
    IF i > Len(keys) \/ keys[i] \in DOMAIN items THEN i
    ELSE NextMatch(keys, items, i + 1)

\* set_bulk_config_items, lines 240-244: the loop runs on to the next key
\* that is in items and calls set_config_item for it
ThreadBulkLoop(t) ==
    /\ pc[t] = "bulk_loop"
    /\ LET keys == get_config_keys(attrs)
           j == NextMatch(keys, local[t].prog.items, local[t].i)
       IN  IF j > Len(keys)
           THEN /\ pc' = [pc EXCEPT ![t] = "done"]
                /\ local' = [local EXCEPT ![t].i = j]
           ELSE /\ pc' = [pc EXCEPT ![t] = "set_item"]
                /\ local' = [local EXCEPT ![t].i = j + 1,
                                          ![t].key = keys[j],
                                          ![t].value = local[t].prog.items[keys[j]]]
    /\ UNCHANGED <<phase, environ, ctor, fs, attrs, lastOp, seen, api>>

\* set_config_item, lines 217-228: the key is checked and the attribute set
ThreadSetItem(t) ==
    /\ pc[t] = "set_item"
    /\ \E c \in {set_config_item(Ctx(attrs, fs), local[t].key, local[t].value,
                                 FALSE, TRUE)} :
          /\ attrs' = c.d
          /\ pc' = [pc EXCEPT ![t] =
                      IF CountEvents(c.events, "assign") > 0 /\ local[t].prog.save
                      THEN "dump"
                      ELSE AfterSet(local[t].prog)]
    /\ UNCHANGED <<phase, environ, ctor, fs, lastOp, local, seen, api>>

\* __write_settings_to_file, lines 180-184: the directory is read, and the
\* dictionary is serialized
ThreadDump(t) ==
    /\ pc[t] = "dump"
    /\ local' = [local EXCEPT ![t].dir = get_config_path(attrs).repr,
                              ![t].data = JsonDump(get_config_as_dict(attrs))]
    /\ pc' = [pc EXCEPT ![t] = "write"]
    /\ UNCHANGED <<phase, environ, ctor, fs, attrs, lastOp, seen, api>>

\* The serialized data reaches the file, or the write fails and
\* __write_settings_to_file raises, lines 185-188
ThreadWrite(t) ==
    /\ pc[t] = "write"
    /\ \E ioOk \in BOOLEAN :
          IF ioOk
          THEN /\ fs' = [fs EXCEPT ![local[t].dir] = JsonFile(local[t].data)]
               /\ local' = [local EXCEPT ![t].wrote = TRUE]
               /\ pc' = [pc EXCEPT ![t] = AfterSet(local[t].prog)]
          ELSE /\ fs' = fs
               /\ local' = [local EXCEPT ![t].raised = "Exception"]
               /\ pc' = [pc EXCEPT ![t] = "done"]
    /\ UNCHANGED <<phase, environ, ctor, attrs, lastOp, seen, api>>

\* One get_config_item call of a flow that reads several fields
ThreadRead(t) ==
    /\ pc[t] = "read"
    /\ LET keys == local[t].prog.keys
           r == get_config_item(attrs, keys[local[t].i])
       IN  /\ seen' = [seen EXCEPT ![t] = Append(@, r.ret)]
           /\ local' = [local EXCEPT ![t].i = @ + 1]
           /\ pc' = [pc EXCEPT ![t] =
                       IF local[t].i = Len(keys) THEN "done" ELSE "read"]
    /\ UNCHANGED <<phase, environ, ctor, fs, attrs, lastOp, api>>

NextConc ==
    \E t \in Threads :
        \/ ThreadBulkLoop(t)
        \/ ThreadSetItem(t)
        \/ ThreadDump(t)
        \/ ThreadWrite(t)
        \/ ThreadRead(t)

SpecConc == InitConc /\ [][NextConc]_vars

AllDone == \A t \in Threads : pc[t] = "done"

\* C9: when every flow ran a persisting set or bulk set, and each has
\* written the file and finished without raising, the file equals the final
\* snapshot.
C9_PersistsDoNotInterleave ==
    ( /\ AllDone
      /\ \A t \in Threads :
            /\ local[t].prog.kind \in {"set", "bulk"}
            /\ local[t].prog.save
            /\ local[t].wrote
            /\ local[t].raised = "none" ) =>
        CurrentFile = JsonFile(JsonDump(get_config_as_dict(attrs)))

\* C10: a flow that has read the fields a concurrent bulk set assigns, while
\* no other flow writes, has seen all of them as they were before the bulk
\* set or all of them as the bulk set leaves them.
C10_BulkNeverHalfObserved ==
    \A r \in Threads, w \in Threads :
        ( /\ local[r].prog.kind = "read"
          /\ pc[r] = "done"
          /\ local[w].prog.kind = "bulk"
          /\ \A u \in Threads \ {r, w} : local[u].prog.kind = "read" ) =>
            LET keys == local[r].prog.keys
            IN  \/ \A j \in 1..Len(keys) : seen[r][j] = Defaults[keys[j]]
                \/ \A j \in 1..Len(keys) : seen[r][j] = local[w].prog.items[keys[j]]

----------------------------------------------------------------------------
(* Repeated bulk sets; loading the settings file *)

\* C11: a bulk set that follows a bulk set of the same mapping with the same
\* save_settings, the first having returned normally, changes neither the
\* attribute dictionary nor any settings file.
C11_BulkSetIdempotent ==
    [][ (lastOp'.op = "bulk" /\ lastOp'.after = "same_bulk") =>
            (attrs' = attrs /\ fs' = fs) ]_vars

\* A persisting bulk set of two fields has been applied a second time.
C11_Witness ==
    /\ lastOp.op = "bulk"
    /\ lastOp.after = "same_bulk"
    /\ lastOp.save
    /\ lastOp.raised = "none"
    /\ CountEvents(lastOp.events, "write") = 2

\* C12: a store built, in the same environment, on the settings file that
\* the store before it has just written returns for every declared field
\* the value the store before it returned.
C12_RoundTrip ==
    [][ (lastOp'.op = "init" /\ lastOp'.after = "persist") =>
            /\ phase' = "ready"
            /\ \A f \in Declared :
                   get_config_item(attrs', f) = get_config_item(attrs, f) ]_vars

\* A store has been built on the file a persisting set of ui_port wrote, and
\* returns the value that was set.
C12_Witness ==
    /\ Built
    /\ lastOp.after = "persist"
    /\ FileHolds("ui_port")
    /\ GetValue("ui_port") = PyInt(<<"9000">>)
    /\ GetValue("ui_port") # Defaults["ui_port"]

\* C13: a constructor that finds the settings file missing, unreadable or
\* not parseable as JSON returns normally and every field holds its
\* override, else its environment variable, else its default; when the file
\* holds an object, the fields stay the declared ones, the keys of the file
\* that are no field are dropped and the fields it holds are applied.
C13_LoadingNeverFatal ==
    (lastOp.op = "init" /\ LoadedFile.kind # "scalar") =>
        /\ phase = "ready"
        /\ lastOp.raised = "none"
        /\ DOMAIN get_config_as_dict(attrs) = Declared
        /\ \A f \in Declared : get_config_as_dict(attrs)[f] = Expected(f)

\* A store has been built over a file that is not JSON, with ui_port in the
\* environment, and holds the environment's value.
C13_Witness ==
    /\ Built
    /\ LoadedFile = CorruptFile
    /\ "ui_port" \in DOMAIN environ
    /\ ~HasOverride("ui_port")
    /\ get_config_as_dict(attrs)["ui_port"] = environ["ui_port"]

----------------------------------------------------------------------------
(***************************************************************************)
(* The web API, unmanic.webserver.api_v2: the request schemas and the      *)
(* plugins handler.                                                        *)
(*                                                                         *)
(* A request body is a function from the names it holds to JSON values.    *)
(* A JSON value is a record of its type t and, by type, its number n, its  *)
(* string s or its list l.                                                 *)
(***************************************************************************)

Num(n) == [t |-> "int", n |-> n, s |-> "", l |-> <<>>]
Str(s) == [t |-> "str", n |-> 0, s |-> s, l |-> <<>>]
List(l) == [t |-> "list", n |-> 0, s |-> "", l |-> l]
Null == [t |-> "null", n |-> 0, s |-> "", l |-> <<>>]

\* The strings int() accepts, among those the requests here hold
Numerals == {"1", "2"}
IntOf(s) == IF s = "1" THEN 1 ELSE 2

\* marshmallow validators: none, validate.OneOf(choices), validate.Length(min)
NoValidate == [kind |-> "none", choices |-> {}, min |-> 0]
OneOf(choices) == [kind |-> "OneOf", choices |-> choices, min |-> 0]
Length(min) == [kind |-> "Length", choices |-> {}, min |-> min]

\* marshmallow fields: fields.Int, fields.Str and fields.List(fields.Int),
\* with required, load_default (when has_default) and validate
Field(type, required, has_default, load_default, validate) ==
    [ type |-> type, required |-> required, has_default |-> has_default,
      load_default |-> load_default, validate |-> validate ]

\* A table schema that takes any string for order_direction
RequestTableDataSchema_anydir ==
    [ start |-> Field("Int", FALSE, TRUE, Num(0), NoValidate),
      length |-> Field("Int", FALSE, TRUE, Num(10), NoValidate),
      search_value |-> Field("Str", FALSE, TRUE, Str(""), NoValidate),
      order_by |-> Field("Str", FALSE, TRUE, Str(""), NoValidate),
      order_direction |-> Field("Str", FALSE, FALSE, Null, NoValidate) ]

\* RequestTableDataSchema
RequestTableDataSchema ==
    [ start |-> Field("Int", FALSE, TRUE, Num(0), NoValidate),
      length |-> Field("Int", FALSE, TRUE, Num(10), NoValidate),
      search_value |-> Field("Str", FALSE, TRUE, Str(""), NoValidate),
      order_by |-> Field("Str", FALSE, TRUE, Str(""), NoValidate),
      order_direction |-> Field("Str", FALSE, FALSE, Null,
                                OneOf({"asc", "desc"})) ]

\* A table schema whose order_by has no default of its own
RequestHistoryTableDataSchema_plain == RequestTableDataSchema

\* RequestHistoryTableDataSchema(RequestTableDataSchema)
RequestHistoryTableDataSchema ==
    [ RequestTableDataSchema EXCEPT
        !.order_by = Field("Str", FALSE, TRUE, Str("finish_time"), NoValidate) ]

\* RequestPendingTableDataSchema(RequestTableDataSchema)
RequestPendingTableDataSchema ==
    [ RequestTableDataSchema EXCEPT
        !.order_by = Field("Str", FALSE, TRUE, Str("priority"), NoValidate) ]

\* RequestPluginsTableDataSchema(RequestTableDataSchema), which plugins_api
\* imports: a table schema whose order_by defaults to the plugin's name
RequestPluginsTableDataSchema ==
    [ RequestTableDataSchema EXCEPT
        !.order_by = Field("Str", FALSE, TRUE, Str("name"), NoValidate) ]

\* A schema that takes any id_list, the empty one included
RequestTableUpdateByIdList_any ==
    [ id_list |-> Field("ListInt", FALSE, FALSE, Null, NoValidate) ]

\* RequestTableUpdateByIdList
RequestTableUpdateByIdList ==
    [ id_list |-> Field("ListInt", TRUE, FALSE, Null, Length(1)) ]

\* A reorder schema that takes any string for position
RequestPendingTasksReorderSchema_anyposition ==
    [ id_list |-> RequestTableUpdateByIdList.id_list,
      position |-> Field("Str", TRUE, FALSE, Null, NoValidate) ]

\* RequestPendingTasksReorderSchema(RequestTableUpdateByIdList)
RequestPendingTasksReorderSchema ==
    [ id_list |-> RequestTableUpdateByIdList.id_list,
      position |-> Field("Str", TRUE, FALSE, Null, OneOf({"top", "bottom"})) ]

----------------------------------------------------------------------------
(* Schema.load *)

\* fields.Int (not strict): an integer, or a string that int() accepts
DeserializeInt(v) ==
    IF v.t = "int" THEN [ok |-> TRUE, val |-> v]
    ELSE IF v.t = "str" /\ v.s \in Numerals
         THEN [ok |-> TRUE, val |-> Num(IntOf(v.s))]
         ELSE [ok |-> FALSE, val |-> Null]

\* Field.deserialize of a value that is present and not null
Deserialize(field, v) ==
    CASE field.type = "Int" -> DeserializeInt(v)
      [] field.type = "Str" -> [ok |-> v.t = "str", val |-> v]
      [] OTHER ->
           IF v.t = "list" /\ \A i \in 1..Len(v.l) : DeserializeInt(v.l[i]).ok
           THEN [ok |-> TRUE,
                 val |-> List([i \in 1..Len(v.l) |-> DeserializeInt(v.l[i]).val])]
           ELSE [ok |-> FALSE, val |-> Null]

\* The field's validate, run on the deserialized value
Validates(field, val) ==
    CASE field.validate.kind = "OneOf" -> val.s \in field.validate.choices
      [] field.validate.kind = "Length" -> Len(val.l) >= field.validate.min
      [] OTHER -> TRUE

\* One field of a load: whether it passes, and the value the result holds
\* for it, if any.  A missing field takes its load_default or stays out; a
\* null is refused (no field here has allow_none).
LoadField(field, body, name) ==
    IF name \notin DOMAIN body
    THEN [ok |-> ~field.required, has |-> field.has_default,
          val |-> field.load_default]
    ELSE IF body[name].t = "null"
         THEN [ok |-> FALSE, has |-> FALSE, val |-> Null]
         ELSE LET r == Deserialize(field, body[name])
              IN  [ok |-> r.ok /\ Validates(field, r.val), has |-> r.ok,
                   val |-> r.val]

\* schema.load(body): valid, and the validated data
SchemaLoad(schema, body) ==
    [ valid |-> \A name \in DOMAIN schema : LoadField(schema[name], body, name).ok,
      data |-> [name \in {n \in DOMAIN schema : LoadField(schema[n], body, n).has}
                  |-> LoadField(schema[name], body, name).val] ]

\* dict.get(key, default)
DictGet(dict, key, default) == IF key \in DOMAIN dict THEN dict[key] ELSE default

----------------------------------------------------------------------------
(* Responses and the base handler *)

NoData == [body |-> "none", recordsTotal |-> 0, recordsFiltered |-> 0,
           results |-> <<>>]

\* What write_success and write_error send
Envelope(kind, status, data) == [kind |-> kind, status |-> status, data |-> data]

\* A handler's run: the collaborator calls it made, the envelopes it wrote,
\* and the collaborators' data when it returns
Run(valid, calls, responses, installed, order) ==
    [ valid |-> valid, calls |-> calls, responses |-> responses,
      installed |-> installed, order |-> order ]

\* BaseApiHandler.read_json_request(schema): the validated body, or a 400
\* response written and BaseApiError raised
read_json_request(schema, body) ==
    LET r == SchemaLoad(schema, body)
    IN  IF r.valid
        THEN [raised |-> "none", json_request |-> r.data, responses |-> <<>>]
        ELSE [raised |-> "BaseApiError", json_request |-> EmptyMap,
              responses |-> <<Envelope("error", "STATUS_ERROR_EXTERNAL", NoData)>>]

----------------------------------------------------------------------------
(* The collaborators: unmanic.webserver.helpers *)

\* The plugins that can be installed, and the rank of each one's name
PluginIds == {1, 2, 3}
NameRank == <<3, 1, 2>>

\* The records whose name holds the search string
Matches(id, search) == search = "" \/ <<search, id>> \in {<<"m", 1>>, <<"m", 3>>}

\* The records ids sorted by column, in direction dir
RECURSIVE SortBy(_, _, _)
SortBy(ids, column, dir) ==
    IF ids = {} THEN <<>>
    ELSE LET key(x) == IF column = "name" THEN NameRank[x] ELSE x
             first == CHOOSE x \in ids :
                          \A y \in ids : IF dir = "desc" THEN key(x) >= key(y)
                                         ELSE key(x) <= key(y)
         IN  <<first>> \o SortBy(ids \ {first}, column, dir)

\* length rows of rows from row start on; a start below 0 reads as 0 and a
\* length below 0 as 0
Page(rows, start, length) ==
    LET lo == IF start < 0 THEN 0 ELSE start
        n == IF length < 0 THEN 0 ELSE length
        hi == IF lo + n < Len(rows) THEN lo + n ELSE Len(rows)
    IN  SubSeq(rows, lo + 1, hi)

\* A table query over the records ids: count, filter, sort, page
FilteredTable(params, ids) ==
    LET filtered == {id \in ids : Matches(id, params.search_value.s)}
    IN  [ body |-> "table",
          recordsTotal |-> Cardinality(ids),
          recordsFiltered |-> Cardinality(filtered),
          results |-> Page(SortBy(filtered, params.order.column.s,
                                  params.order.dir.s),
                           params.start.n, params.length.n) ]

\* plugins.prepare_filtered_plugins(params)
prepare_filtered_plugins(params, installed) == FilteredTable(params, installed)

\* plugins.enable_plugins, disable_plugins, update_plugins, remove_plugins
\* (id_list): done for all the ids or reported as failed.  Removing takes the
\* plugins out of the installed ones.
PluginsHelper(fn, ids, installed) ==
    LET all == \A i \in 1..Len(ids) : ids[i].n \in installed
    IN  [ success |-> all,
          installed |-> IF all /\ fn = "remove_plugins"
                        THEN installed \ {ids[i].n : i \in 1..Len(ids)}
                        ELSE installed ]

\* The elements of seq not in done, in order, each once
RECURSIVE Distinct(_, _)
Distinct(seq, done) ==
    IF seq = <<>> THEN <<>>
    ELSE IF Head(seq) \in done THEN Distinct(Tail(seq), done)
         ELSE <<Head(seq)>> \o Distinct(Tail(seq), done \cup {Head(seq)})

\* The elements of seq that are in keep, in order
RECURSIVE Select(_, _)
Select(seq, keep) ==
    IF seq = <<>> THEN <<>>
    ELSE IF Head(seq) \in keep THEN <<Head(seq)>> \o Select(Tail(seq), keep)
         ELSE Select(Tail(seq), keep)

\* pending_tasks.reorder_pending_tasks(id_list, position): the listed ids
\* that are in the order move as one block to the front or to the back
Reorder(order, ids, position) ==
    LET listed == Distinct(Select([i \in 1..Len(ids) |-> ids[i].n], Range(order)), {})
        rest == Select(order, Range(order) \ Range(listed))
    IN  IF position = "top" THEN listed \o rest ELSE rest \o listed

----------------------------------------------------------------------------
(* The handlers *)

\* The params a list handler builds from the validated request, column and
\* dir being the defaults it gives for the order
TableParams(json_request, column, dir) ==
    [ start |-> DictGet(json_request, "start", Str("0")),
      length |-> DictGet(json_request, "length", Str("10")),
      search_value |-> DictGet(json_request, "search_value", Str("")),
      order |-> [column |-> DictGet(json_request, "order_by", Str(column)),
                 dir |-> DictGet(json_request, "order_direction", Str(dir))] ]

NoParams == TableParams(EmptyMap, "", "")

\* A call of a collaborator: its arguments and how it ended ("true",
\* "false" or "raised")
Call(fn, params, id_list, position, outcome) ==
    [ fn |-> fn, params |-> params, id_list |-> id_list,
      position |-> position, outcome |-> outcome ]

\* An except branch that answers again after read_json_request has answered
Rejected_again(r, installed, order) ==
    Run(FALSE, <<>>,
        r.responses \o <<Envelope("error", "STATUS_ERROR_INTERNAL", NoData)>>,
        installed, order)

\* except BaseApiError: the response read_json_request wrote stands
Rejected(r, installed, order) == Run(FALSE, <<>>, r.responses, installed, order)

\* self.set_status(self.STATUS_ERROR_INTERNAL, ...); self.write_error()
InternalError == Envelope("error", "STATUS_ERROR_INTERNAL", NoData)

\* self.write_success(response)
Success(data) == Envelope("success", "STATUS_SUCCESS", data)

\* A list handler that reports the filtered count as the total
get_installed_plugins_filtered(body, how, installed, order) ==
    LET r == read_json_request(RequestPluginsTableDataSchema, body)
        params == TableParams(r.json_request, "name", "asc")
        plugins_list == prepare_filtered_plugins(params, installed)
    IN  IF r.raised # "none" THEN Rejected(r, installed, order)
        ELSE IF how = "raise"
        THEN Run(TRUE, <<Call("prepare_filtered_plugins", params, <<>>, "", "raised")>>,
                 <<InternalError>>, installed, order)
        ELSE Run(TRUE, <<Call("prepare_filtered_plugins", params, <<>>, "", "true")>>,
                 <<Success([ body |-> "table",
                             recordsTotal |-> plugins_list.recordsFiltered,
                             recordsFiltered |-> plugins_list.recordsFiltered,
                             results |-> plugins_list.results ])>>,
                 installed, order)

\* ApiPluginsHandler.get_installed_plugins
get_installed_plugins(body, how, installed, order) ==
    LET r == read_json_request(RequestPluginsTableDataSchema, body)
        params == TableParams(r.json_request, "name", "asc")
        plugins_list == prepare_filtered_plugins(params, installed)
    IN  IF r.raised # "none" THEN Rejected(r, installed, order)
        ELSE IF how = "raise"
        THEN Run(TRUE, <<Call("prepare_filtered_plugins", params, <<>>, "", "raised")>>,
                 <<InternalError>>, installed, order)
        ELSE Run(TRUE, <<Call("prepare_filtered_plugins", params, <<>>, "", "true")>>,
                 <<Success([ body |-> "table",
                             recordsTotal |-> plugins_list.recordsTotal,
                             recordsFiltered |-> plugins_list.recordsFiltered,
                             results |-> plugins_list.results ])>>,
                 installed, order)

\* A handler that answers with success whatever the collaborator returned
PluginsUpdate_ignore(fn, body, how, installed, order) ==
    LET r == read_json_request(RequestTableUpdateByIdList, body)
        id_list == DictGet(r.json_request, "id_list", List(<<>>)).l
        done == PluginsHelper(fn, id_list, installed)
    IN  IF r.raised # "none" THEN Rejected(r, installed, order)
        ELSE IF how = "raise"
        THEN Run(TRUE, <<Call(fn, NoParams, id_list, "", "raised")>>,
                 <<InternalError>>, installed, order)
        ELSE Run(TRUE, <<Call(fn, NoParams, id_list, "",
                              IF done.success THEN "true" ELSE "false")>>,
                 <<Success(NoData)>>, done.installed, order)

\* The body that enable_plugins, disable_plugins, update_plugins and
\* remove_plugins share, fn being the collaborator each one calls
PluginsUpdate(fn, body, how, installed, order) ==
    LET r == read_json_request(RequestTableUpdateByIdList, body)
        id_list == DictGet(r.json_request, "id_list", List(<<>>)).l
        done == PluginsHelper(fn, id_list, installed)
    IN  IF r.raised # "none" THEN Rejected(r, installed, order)
        ELSE IF how = "raise"
        THEN Run(TRUE, <<Call(fn, NoParams, id_list, "", "raised")>>,
                 <<InternalError>>, installed, order)
        ELSE IF ~done.success
        THEN Run(TRUE, <<Call(fn, NoParams, id_list, "", "false")>>,
                 <<InternalError>>, done.installed, order)
        ELSE Run(TRUE, <<Call(fn, NoParams, id_list, "", "true")>>,
                 <<Success(NoData)>>, done.installed, order)

\* ApiPluginsHandler.enable_plugins
enable_plugins(body, how, installed, order) ==
    PluginsUpdate("enable_plugins", body, how, installed, order)

\* ApiPluginsHandler.disable_plugins
disable_plugins(body, how, installed, order) ==
    PluginsUpdate("disable_plugins", body, how, installed, order)

\* ApiPluginsHandler.update_plugins
update_plugins(body, how, installed, order) ==
    PluginsUpdate("update_plugins", body, how, installed, order)

\* ApiPluginsHandler.remove_plugins
remove_plugins(body, how, installed, order) ==
    PluginsUpdate("remove_plugins", body, how, installed, order)

----------------------------------------------------------------------------
(* The history and pending-tasks handlers, which the schemas are for; they  *)
(* have the shape of the plugins handlers.                                 *)

\* The tasks that have completed
CompletedTaskIds == {1, 2}

\* A list handler over the records ids: schema, collaborator fn, and the
\* order it gives when the request has none
TableRequest(schema, fn, column, dir, ids, body, how, installed, order) ==
    LET r == read_json_request(schema, body)
        params == TableParams(r.json_request, column, dir)
    IN  IF r.raised # "none" THEN Rejected(r, installed, order)
        ELSE IF how = "raise"
        THEN Run(TRUE, <<Call(fn, params, <<>>, "", "raised")>>,
                 <<InternalError>>, installed, order)
        ELSE Run(TRUE, <<Call(fn, params, <<>>, "", "true")>>,
                 <<Success(FilteredTable(params, ids))>>, installed, order)

\* ApiHistoryHandler.get_completed_tasks
get_completed_tasks(body, how, installed, order) ==
    TableRequest(RequestHistoryTableDataSchema, "prepare_filtered_completed_tasks",
                 "finish_time", "desc", CompletedTaskIds, body, how,
                 installed, order)

\* ApiPendingHandler.get_pending_tasks
get_pending_tasks(body, how, installed, order) ==
    TableRequest(RequestPendingTableDataSchema, "prepare_filtered_pending_tasks",
                 "priority", "asc", Range(order), body, how, installed, order)

\* ApiPendingHandler.reorder_pending_tasks
reorder_pending_tasks(body, how, installed, order) ==
    LET r == read_json_request(RequestPendingTasksReorderSchema, body)
        id_list == DictGet(r.json_request, "id_list", List(<<>>)).l
        position == DictGet(r.json_request, "position", Null).s
    IN  IF r.raised # "none" THEN Rejected(r, installed, order)
        ELSE IF how = "raise"
        THEN Run(TRUE, <<Call("reorder_pending_tasks", NoParams, id_list,
                              position, "raised")>>,
                 <<InternalError>>, installed, order)
        ELSE Run(TRUE, <<Call("reorder_pending_tasks", NoParams, id_list,
                              position, "true")>>,
                 <<Success(NoData)>>, installed,
                 Reorder(order, id_list, position))

----------------------------------------------------------------------------
(* Requests *)

Absent == [t |-> "absent", n |-> 0, s |-> "", l |-> <<>>]

\* The body that holds the names of f whose value is not Absent
Body(f) == Restrict(f, {k \in DOMAIN f : f[k].t # "absent"})

TableBody(start, length, search_value, order_by, order_direction) ==
    Body([ start |-> start, length |-> length, search_value |-> search_value,
           order_by |-> order_by, order_direction |-> order_direction ])

\* List requests: every start with every length, and every order with every
\* search
TableBodies ==
    { TableBody(start, length, Absent, Absent, Absent) :
        start \in {Absent, Num(1), Num(-1), Str("x")},
        length \in {Absent, Num(2), Num(0), Str("2")} }
    \cup
    { TableBody(Absent, Absent, search_value, order_by, order_direction) :
        search_value \in {Absent, Str("m")},
        order_by \in {Absent, Str("id")},
        order_direction \in {Absent, Str("desc"), Str("up"), Null} }

\* The list requests sent to the history and pending handlers
FewTableBodies ==
    { TableBody(start, Absent, Absent, Absent, order_direction) :
        start \in {Absent, Num(-1)},
        order_direction \in {Absent, Str("asc"), Str("down")} }

IdLists ==
    { Absent, Null, List(<<>>), List(<<Str("x")>>), List(<<Num(1)>>),
      List(<<Num(2), Num(1)>>), List(<<Num(1), Num(4)>>) }

IdListBodies == { Body([id_list |-> id_list]) : id_list \in IdLists }

ReorderBodies ==
    { Body([id_list |-> id_list, position |-> position]) :
        id_list \in {Absent, List(<<>>), List(<<Num(1)>>),
                     List(<<Num(3), Num(2)>>), List(<<Num(2), Num(3), Num(2)>>)},
        position \in {Absent, Str("top"), Str("bottom"), Str("middle")} }

\* How the collaborator ends: it returns, or it raises
Hows == {"ok", "raise"}

----------------------------------------------------------------------------
(* The web API serving one request after another *)

\* The pending tasks, first to run first
InitialOrder == <<1, 2, 3>>

\* A built store, every plugin installed, and no request served yet
InitApi ==
    /\ phase = "ready"
    /\ environ = EmptyMap
    /\ ctor = NoArgs
    /\ fs = [d \in Dirs |-> NoFile]
    /\ attrs = ConfigInit(EmptyMap, [d \in Dirs |-> NoFile], NoArgs).d
    /\ lastOp = NoOp
    /\ pc = [t \in Threads |-> "idle"]
    /\ local = [t \in Threads |-> NoLocal]
    /\ seen = [t \in Threads |-> <<>>]
    /\ api = [NoApi EXCEPT !.installed = PluginIds, !.order = InitialOrder]

\* The handler of endpoint has served body with the run run
Respond(endpoint, body, run) ==
    /\ api' = [ installed |-> run.installed, order |-> run.order,
                last |-> [ endpoint |-> endpoint, body |-> body,
                           valid |-> run.valid, calls |-> run.calls,
                           responses |-> run.responses ] ]
    /\ UNCHANGED <<phase, environ, ctor, fs, attrs, lastOp, pc, local, seen>>

GetInstalledPlugins ==
    \E body \in TableBodies, how \in Hows :
        \E run \in {get_installed_plugins(body, how, api.installed, api.order)} :
            Respond("get_installed_plugins", body, run)

EnablePlugins ==
    \E body \in IdListBodies, how \in Hows :
        \E run \in {enable_plugins(body, how, api.installed, api.order)} :
            Respond("enable_plugins", body, run)

DisablePlugins ==
    \E body \in IdListBodies, how \in Hows :
        \E run \in {disable_plugins(body, how, api.installed, api.order)} :
            Respond("disable_plugins", body, run)

UpdatePlugins ==
    \E body \in IdListBodies, how \in Hows :
        \E run \in {update_plugins(body, how, api.installed, api.order)} :
            Respond("update_plugins", body, run)

RemovePlugins ==
    \E body \in IdListBodies, how \in Hows :
        \E run \in {remove_plugins(body, how, api.installed, api.order)} :
            Respond("remove_plugins", body, run)

GetCompletedTasks ==
    \E body \in FewTableBodies, how \in Hows :
        \E run \in {get_completed_tasks(body, how, api.installed, api.order)} :
            Respond("get_completed_tasks", body, run)

GetPendingTasks ==
    \E body \in FewTableBodies, how \in Hows :
        \E run \in {get_pending_tasks(body, how, api.installed, api.order)} :
            Respond("get_pending_tasks", body, run)

ReorderPendingTasks ==
    \E body \in ReorderBodies, how \in Hows :
        \E run \in {reorder_pending_tasks(body, how, api.installed, api.order)} :
            Respond("reorder_pending_tasks", body, run)

NextApi ==
    \/ GetInstalledPlugins
    \/ EnablePlugins
    \/ DisablePlugins
    \/ UpdatePlugins
    \/ RemovePlugins
    \/ GetCompletedTasks
    \/ GetPendingTasks
    \/ ReorderPendingTasks

SpecApi == InitApi /\ [][NextApi]_vars

----------------------------------------------------------------------------
(* What the claims on the web API speak of *)

UpdateEndpoints ==
    {"enable_plugins", "disable_plugins", "update_plugins", "remove_plugins"}

ListEndpoints ==
    {"get_installed_plugins", "get_completed_tasks", "get_pending_tasks"}

\* The last request holds name
Has(name) == name \in DOMAIN api.last.body

\* The last request holds no id_list, or an empty one
NoIds ==
    \/ ~Has("id_list")
    \/ api.last.body["id_list"].t = "list" /\ api.last.body["id_list"].l = <<>>

\* The last request was refused by validation: one response, the error
\* read_json_request wrote, and no collaborator called
Refused ==
    /\ ~api.last.valid
    /\ api.last.calls = <<>>
    /\ Len(api.last.responses) = 1
    /\ api.last.responses[1].kind = "error"
    /\ api.last.responses[1].status = "STATUS_ERROR_EXTERNAL"

\* The last request holds the integer name and P is true of it
IntIs(name, P(_)) ==
    /\ Has(name)
    /\ api.last.body[name].t = "int"
    /\ P(api.last.body[name].n)

----------------------------------------------------------------------------
(* The claims on the web API *)

\* C14: on enable, disable, update, remove and reorder, a request with no
\* id_list or an empty one fails validation and no collaborator is called.
C14_EmptyIdListRefused ==
    (api.last.endpoint \in UpdateEndpoints \cup {"reorder_pending_tasks"}
        /\ NoIds) => Refused

\* A remove request with an empty id_list has been refused.
C14_Witness ==
    /\ api.last.endpoint = "remove_plugins"
    /\ Has("id_list")
    /\ api.last.body["id_list"] = List(<<>>)
    /\ Refused

\* C15: on enable, disable, update and remove, a validated request calls the
\* collaborator once and gets one response: the success envelope exactly
\* when the collaborator returned true, and otherwise (it returned false or
\* raised) the internal-error envelope, which holds nothing about any id.
C15_AggregateOutcome ==
    (api.last.endpoint \in UpdateEndpoints /\ api.last.valid) =>
        /\ Len(api.last.calls) = 1
        /\ Len(api.last.responses) = 1
        /\ api.last.responses[1] =
               IF api.last.calls[1].outcome = "true" THEN Success(NoData)
               ELSE InternalError

\* An enable request naming a plugin that is not installed has got the
\* internal-error envelope.
C15_Witness ==
    /\ api.last.endpoint = "enable_plugins"
    /\ api.last.valid
    /\ Len(api.last.calls) = 1
    /\ api.last.calls[1].id_list = <<Num(1), Num(4)>>
    /\ api.last.calls[1].outcome = "false"
    /\ api.last.responses = <<InternalError>>

\* C16 as stated: a list request without start reaches the collaborator
\* with start 0 and one without length with length 10; a request whose start
\* is below 0 or whose length is 0 or less fails validation and no
\* collaborator is called.
C16_StartLengthValidated ==
    api.last.endpoint \in ListEndpoints =>
        /\ api.last.valid =>
              /\ ~Has("start") => api.last.calls[1].params.start = Num(0)
              /\ ~Has("length") => api.last.calls[1].params.length = Num(10)
        /\ (IntIs("start", LAMBDA n : n < 0) \/ IntIs("length", LAMBDA n : n <= 0))
              => Refused

\* C17: a list request whose order_direction is a string other than "asc"
\* and "desc" fails validation, and every call of a list collaborator
\* carries the direction "asc" or "desc".
C17_OrderDirection ==
    api.last.endpoint \in ListEndpoints =>
        /\ ( /\ Has("order_direction")
             /\ api.last.body["order_direction"].t = "str"
             /\ api.last.body["order_direction"].s \notin {"asc", "desc"} )
              => Refused
        /\ \A i \in 1..Len(api.last.calls) :
              api.last.calls[i].params.order.dir \in {Str("asc"), Str("desc")}

\* A plugins list request with order_direction "up" has been refused.
C17_Witness ==
    /\ api.last.endpoint = "get_installed_plugins"
    /\ Has("order_direction")
    /\ api.last.body["order_direction"] = Str("up")
    /\ Refused

\* The smaller and the larger of two numbers
MinOf(a, b) == IF a < b THEN a ELSE b
MaxOf(a, b) == IF a > b THEN a ELSE b

\* C18: the plugins list, asked with a start of 0 or more and a length above
\* 0 and answered by its collaborator, responds once, with success, with
\* recordsTotal the number of installed plugins, recordsFiltered the number
\* of them that match search_value, and min(length, max(0, recordsFiltered -
\* start)) results.
C18_ListCounts ==
    ( /\ api.last.endpoint = "get_installed_plugins"
      /\ api.last.valid
      /\ api.last.calls[1].outcome = "true"
      /\ api.last.calls[1].params.start.n >= 0
      /\ api.last.calls[1].params.length.n > 0 ) =>
        LET params == api.last.calls[1].params
            data == api.last.responses[1].data
            matching == {id \in api.installed : Matches(id, params.search_value.s)}
        IN  /\ Len(api.last.responses) = 1
            /\ api.last.responses[1].kind = "success"
            /\ data.recordsTotal = Cardinality(api.installed)
            /\ data.recordsFiltered = Cardinality(matching)
            /\ Len(data.results) =
                   MinOf(params.length.n,
                         MaxOf(0, data.recordsFiltered - params.start.n))
            /\ Range(data.results) \subseteq matching

\* Three plugins listed with the filter "m" and length 10: 3 in all, 2 that
\* match, 2 results.
C18_Witness ==
    /\ api.last.endpoint = "get_installed_plugins"
    /\ api.last.valid
    /\ Has("search_value")
    /\ api.last.calls[1].outcome = "true"
    /\ api.last.responses[1].data.recordsTotal = 3
    /\ api.last.responses[1].data.recordsFiltered = 2
    /\ Len(api.last.responses[1].data.results) = 2

\* C19: a validated history list request with neither order_by nor
\* order_direction asks its collaborator for the order finish_time desc, and
\* such a pending list request for the order priority asc.
C19_DefaultOrdering ==
    ( /\ api.last.endpoint \in {"get_completed_tasks", "get_pending_tasks"}
      /\ api.last.valid
      /\ ~Has("order_by")
      /\ ~Has("order_direction") ) =>
        api.last.calls[1].params.order =
            IF api.last.endpoint = "get_completed_tasks"
            THEN [column |-> Str("finish_time"), dir |-> Str("desc")]
            ELSE [column |-> Str("priority"), dir |-> Str("asc")]

\* A history list request with no order has been passed on with the order
\* finish_time desc.
C19_Witness ==
    /\ api.last.endpoint = "get_completed_tasks"
    /\ api.last.valid
    /\ ~Has("order_by")
    /\ ~Has("order_direction")
    /\ api.last.calls[1].params.order.column.s = "finish_time"
    /\ api.last.calls[1].params.order.dir.s = "desc"

\* The place of x in seq, and the place where x first comes in the id_list
\* ids
Pos(seq, x) == CHOOSE i \in 1..Len(seq) : seq[i] = x
First(ids, x) ==
    CHOOSE i \in 1..Len(ids) :
        ids[i].n = x /\ \A j \in 1..(i - 1) : ids[j].n # x

\* new is old with the ids of the id_list ids moved as a block to the front
\* (position "top") or to the back ("bottom"): the same ids, the listed ones
\* before (after) all the others, the listed ones in the order of the
\* id_list and the others in the order they had
Moved(old, new, ids, position) ==
    LET listed == {ids[i].n : i \in 1..Len(ids)} \cap Range(old)
        others == Range(old) \ listed
    IN  /\ Len(new) = Len(old)
        /\ Range(new) = Range(old)
        /\ \A a \in listed, b \in others :
              IF position = "top" THEN Pos(new, a) < Pos(new, b)
              ELSE Pos(new, b) < Pos(new, a)
        /\ \A a, b \in listed :
              First(ids, a) < First(ids, b) => Pos(new, a) < Pos(new, b)
        /\ \A a, b \in others :
              Pos(old, a) < Pos(old, b) => Pos(new, a) < Pos(new, b)

\* C20: a reorder request is validated only when it holds a non-empty
\* id_list and the position "top" or "bottom"; the reorder it then makes
\* leaves the listed ids as one block at the front (top) or at the back
\* (bottom), in the order of the id_list, and the other ids in the order
\* they had.
C20_Reorder ==
    [][ api'.last.endpoint = "reorder_pending_tasks" =>
          /\ api'.last.valid =>
                /\ "id_list" \in DOMAIN api'.last.body
                /\ api'.last.body["id_list"].t = "list"
                /\ api'.last.body["id_list"].l # <<>>
                /\ "position" \in DOMAIN api'.last.body
                /\ api'.last.body["position"] \in {Str("top"), Str("bottom")}
          /\ (api'.last.valid /\ api'.last.calls[1].outcome = "true") =>
                Moved(api.order, api'.order, api'.last.calls[1].id_list,
                      api'.last.calls[1].position) ]_vars

\* Tasks 3 and 2 have been moved to the top of the order 1, 2, 3.
C20_Witness ==
    /\ api.last.endpoint = "reorder_pending_tasks"
    /\ api.last.valid
    /\ api.last.calls[1].outcome = "true"
    /\ api.last.calls[1].id_list = <<Num(3), Num(2)>>
    /\ api.last.calls[1].position = "top"
    /\ api.order = <<3, 2, 1>>

----------------------------------------------------------------------------
(* What writes the settings file, what get touches, what a handler answers, *)
(* and what a failed write leaves                                          *)

\* The call that made the step names a declared field: the key of a set, or
\* a key of the mapping of a bulk set
NamesDeclared(call) ==
    \/ call.op = "set" /\ call.key \in Declared
    \/ call.op = "bulk" /\ DOMAIN call.items \cap Declared # {}

\* C21: a step changes a settings file only when it is a set or a bulk set
\* with save_settings that names a declared field; the constructor and the
\* calls without save_settings leave every file as it was, undeclared keys
\* included.
C21_FileWrittenOnlyByPersist ==
    [][ fs' # fs =>
          /\ lastOp'.op \in {"set", "bulk"}
          /\ lastOp'.save
          /\ NamesDeclared(lastOp') ]_vars

\* C22: a get, of a field or of any other key, leaves the attribute
\* dictionary as it was (no value changed, no key added) and every settings
\* file as it was, and logs, assigns and writes nothing.
C22_GetReadOnly ==
    [][ lastOp'.op = "get" =>
          /\ attrs' = attrs
          /\ fs' = fs
          /\ lastOp'.events = <<>> ]_vars

\* A get of ui_port has returned the value set without save_settings, which
\* is not the one the settings file holds.
C22_Witness ==
    /\ lastOp.op = "get"
    /\ lastOp.key = "ui_port"
    /\ lastOp.ret = PyInt(<<"9000">>)
    /\ lastOp.ret = get_config_as_dict(attrs)["ui_port"]
    /\ CurrentFile.kind = "json"
    /\ CurrentFile.data["ui_port"] # JsonDumpValue(lastOp.ret)

\* C23: every run of a plugins handler (list, enable, disable, update,
\* remove) writes exactly one response and calls its collaborator at most
\* once, and only for a validated request: the 400 response of the
\* validation alone when the request is refused, the success envelope when
\* the collaborator returned (true, for the four updates), and the
\* internal-error envelope when it returned false or raised.
C23_OneResponse ==
    api.last.endpoint \in UpdateEndpoints \cup {"get_installed_plugins"} =>
        /\ Len(api.last.responses) = 1
        /\ Len(api.last.calls) = IF api.last.valid THEN 1 ELSE 0
        /\ IF ~api.last.valid
           THEN /\ api.last.responses[1].kind = "error"
                /\ api.last.responses[1].status = "STATUS_ERROR_EXTERNAL"
           ELSE IF api.last.calls[1].outcome = "true"
           THEN /\ api.last.responses[1].kind = "success"
                /\ api.last.responses[1].status = "STATUS_SUCCESS"
           ELSE api.last.responses[1] = InternalError

\* The plugins list, its collaborator having raised, has answered with the
\* internal-error envelope alone.
C23_Witness ==
    /\ api.last.endpoint = "get_installed_plugins"
    /\ api.last.valid
    /\ Len(api.last.calls) = 1
    /\ api.last.calls[1].outcome = "raised"
    /\ api.last.responses = <<InternalError>>

\* The keys of the dictionary d that the mapping items holds, in the order
\* set_bulk_config_items meets them
MatchingKeys(d, items) == Select(get_config_keys(d), DOMAIN items)

\* The keys the call assigned, in order
AssignedKeys(events) ==
    LET assigns == SelectSeq(events, LAMBDA ev : ev.e = "assign")
    IN  [i \in 1..Len(assigns) |-> assigns[i].key]

\* C24: a set of a declared field with save_settings whose write fails
\* raises, having assigned the value first: the dictionary keeps the new
\* value and every settings file its content.  A bulk set with save_settings
\* that raises has assigned the matching fields up to the one whose write
\* failed and none after it: those keep the values they had.
C24_FailedWrite ==
    [][ /\ ( /\ lastOp'.op = "set"
             /\ lastOp'.key \in Declared
             /\ lastOp'.save
             /\ lastOp'.failAt # 0 ) =>
               /\ lastOp'.raised # "none"
               /\ get_config_as_dict(attrs')[lastOp'.key] = lastOp'.value
               /\ fs' = fs
               /\ Len(lastOp'.events) = 2
               /\ lastOp'.events[1].e = "assign"
               /\ lastOp'.events[2].e = "write_failed"
        /\ ( /\ lastOp'.op = "bulk"
             /\ lastOp'.save
             /\ lastOp'.raised # "none" ) =>
               LET matching == MatchingKeys(attrs, lastOp'.items)
                   n == lastOp'.failAt
               IN  /\ n \in 1..Len(matching)
                   /\ AssignedKeys(lastOp'.events) = SubSeq(matching, 1, n)
                   /\ lastOp'.events[Len(lastOp'.events)].e = "write_failed"
                   /\ \A i \in 1..n :
                         get_config_as_dict(attrs')[matching[i]] =
                             lastOp'.items[matching[i]]
                   /\ \A i \in (n + 1)..Len(matching) :
                         get_config_as_dict(attrs')[matching[i]] =
                             get_config_as_dict(attrs)[matching[i]]
      ]_vars

\* A persisting set of ui_port has raised: the dictionary holds the new
\* value and the settings file does not.
C24_Witness ==
    /\ lastOp.op = "set"
    /\ lastOp.key = "ui_port"
    /\ lastOp.save
    /\ lastOp.raised # "none"
    /\ get_config_as_dict(attrs)["ui_port"] = PyInt(<<"9000">>)
    /\ \/ CurrentFile.kind # "json"
       \/ CurrentFile.data["ui_port"] # JsonDumpValue(PyInt(<<"9000">>))

====
